---- MODULE Spec2Model ----
(***************************************************************************)
(* Model of src/main.py: a Shiny page that lists the models of a local     *)
(* Ollama daemon, and on "Submit Model" shows the selected model's name,   *)
(* system prompt and configuration.                                        *)
(*                                                                         *)
(* Text is a sequence of tokens; the word "Error" is always a token of its *)
(* own, so that Python's substring test  "Error" in s  is a subsequence    *)
(* search and an f-string is a concatenation.                              *)
(*                                                                         *)
(* The handler  _  is a plain (non-async) function run by Shiny's          *)
(* single-threaded reactive flush: a message of the session is processed   *)
(* only when the previous one's handler and renders are over, and an       *)
(* exception that leaves a reactive.Effect closes the session.             *)
(***************************************************************************)
EXTENDS Integers, Sequences, FiniteSets, TLC

VARIABLES
    list_response,    \* what ollama.list() did at import time (line 45)
    choices,          \* choices of the select control, fixed at import time
    daemon_up,        \* whether the daemon is reachable now
    session_open,     \* the session has not been closed by an unhandled error
    selected_model,   \* input.selected_model()
    submit_model,     \* clicks of "Submit Model" not handled yet
    pc,               \* "idle", "fetching" (inside ollama.show), "flush"
    handler_model,    \* the handler's local selected_model (line 66)
    show_response,    \* what ollama.show() did in the latest attempt
    model_to_display, \* reactive.Value, line 58
    model_config,     \* reactive.Value, line 59
    system_prompt,    \* reactive.Value, line 60
    written,          \* the reactive values set by the latest attempt
    rendered,         \* what the three text panes show
    notifications,    \* ui.notification_show calls of the latest attempt
    fetch_calls,      \* ollama.show calls of the latest attempt
    format_calls,     \* format_model_config calls of the latest attempt
    in_flight,        \* ollama.show calls started and not returned
    outcome,          \* how the latest attempt ended
    session_no        \* the sessions server() was called for so far

vars == <<list_response, choices, daemon_up, session_open, selected_model,
          submit_model, pc, handler_model, show_response, model_to_display,
          model_config, system_prompt, written, rendered, notifications,
          fetch_calls, format_calls, in_flight, outcome, session_no>>

(* ------------------------------ bounds --------------------------------- *)

MaxModels == 2    \* installed models the daemon reports at most
MaxPending == 2   \* clicks waiting to be handled at most
MaxSessions == 2  \* sessions of one process at most

(* --------------------------- Python values ----------------------------- *)

NoneVal == [kind |-> "none", v |-> <<>>]
StrVal(tokens) == [kind |-> "str", v |-> tokens]
DateTimeVal == [kind |-> "datetime", v |-> <<"2024-05-01", "12:30:00">>]
BytesVal == [kind |-> "bytes", v |-> <<>>]

\* Python's  needle in hay  on strings
Contains(needle, hay) ==
    \E i \in 0..(Len(hay) - Len(needle)) :
        SubSeq(hay, i + 1, i + Len(needle)) = needle

\* Python truthiness of a value
Truthy(o) ==
    CASE o.kind = "none" -> FALSE
      [] o.kind = "str" -> o.v # <<>>
      [] OTHER -> TRUE

(* ------------------------------ strings -------------------------------- *)

Sentinel == <<"Error", ": Could not connect to Ollama. Is it running?">>
NoModelSubmitted == <<"No model submitted yet.">>
ConfigPlaceholder == <<"Model config will be shown here after submission.">>
NoSystemPrompt == <<"No system prompt configured">>
ConnectError == <<"Error", ": Could not connect to Ollama.">>

Fields == {"model_to_display", "model_config", "system_prompt"}

(* ------------------------------ daemon --------------------------------- *)

ModelIds == { <<"llama3:latest">>, <<"mistral:7b">>, <<"Error", "Bot:latest">> }

ModelLists ==
    { s \in UNION { [1..n -> ModelIds] : n \in 0..MaxModels } :
        \A i, j \in DOMAIN s : s[i] = s[j] => i = j }

\* ollama.list(): an exception, or a response with the model descriptors
ListResponses ==
    { [raises |-> TRUE, models |-> <<>>] }
    \cup { [raises |-> FALSE, models |-> [i \in DOMAIN s |-> [model |-> s[i]]]] :
             s \in ModelLists }
    \cup { [raises |-> FALSE, models |-> << [name |-> <<"llama3:latest">>] >>] }

\* a key the record does not hold
AbsentVal == [kind |-> "absent", v |-> <<>>]

Entry(k, o) == IF o = AbsentVal THEN <<>> ELSE << <<k, o>> >>

\* the configuration records ollama.show(...).model_dump() yields
Configs ==
    { Entry("system", s) \o Entry("modified_at", DateTimeVal) \o Entry("blob", x) :
        s \in {AbsentVal, NoneVal, StrVal(<<>>), StrVal(<<"You are helpful.">>)},
        x \in {AbsentVal, BytesVal} }

\* ollama.show(): an exception, or a configuration record
ShowResponses ==
    { [raises |-> TRUE, config |-> <<>>] }
    \cup { [raises |-> FALSE, config |-> c] : c \in Configs }

NoShow == [raises |-> TRUE, config |-> <<>>]

(* ------------------------- helper functions ---------------------------- *)

\* get_available_models: the model names, or the sentinel on any exception
\* (the daemon is unreachable, or a descriptor has no 'model' key)
get_available_models(resp) ==
    IF resp.raises \/ \E i \in DOMAIN resp.models : "model" \notin DOMAIN resp.models[i]
    THEN << Sentinel >>
    ELSE [i \in DOMAIN resp.models |-> resp.models[i].model]

\* datetime.isoformat()
isoformat(o) == << o.v[1], "T", o.v[2] >>

\* datetime_converter: the ISO 8601 string of a datetime, TypeError otherwise
datetime_converter(o) ==
    IF o.kind = "datetime"
    THEN [raises |-> FALSE, text |-> isoformat(o)]
    ELSE [raises |-> TRUE, text |-> << "Object of type ", o.kind, " is not JSON serializable" >>]

Quoted(tokens) == << "\"" >> \o tokens \o << "\"" >>

\* json.dumps of one value, with default=datetime_converter
DumpValue(o) ==
    CASE o.kind = "str" -> [raises |-> FALSE, text |-> Quoted(o.v)]
      [] o.kind = "none" -> [raises |-> FALSE, text |-> << "null" >>]
      [] OTHER ->
           LET d == datetime_converter(o)
           IN  IF d.raises THEN d ELSE [raises |-> FALSE, text |-> Quoted(d.text)]

RECURSIVE DumpItems(_, _)
\* the items of a dict from the i-th on, indent=2, in the order received
DumpItems(d, i) ==
    IF i > Len(d) THEN [raises |-> FALSE, text |-> << >>]
    ELSE LET val == DumpValue(d[i][2])
             rest == DumpItems(d, i + 1)
         IN  IF val.raises THEN val
             ELSE IF rest.raises THEN rest
             ELSE [raises |-> FALSE,
                   text |-> << "\n  " >> \o Quoted(<< d[i][1] >>) \o << ": " >> \o val.text
                            \o (IF i < Len(d) THEN << "," >> ELSE << >>) \o rest.text]

\* format_model_config: json.dumps(config_dict, indent=2, default=datetime_converter)
format_model_config(config_dict) ==
    IF Len(config_dict) = 0 THEN [raises |-> FALSE, text |-> << "{}" >>]
    ELSE LET items == DumpItems(config_dict, 1)
         IN  IF items.raises THEN items
             ELSE [raises |-> FALSE, text |-> << "{" >> \o items.text \o << "\n", "}" >>]

\* dict.get(key): the value, None when the key is missing
DictGet(d, key) ==
    IF \E i \in DOMAIN d : d[i][1] = key
    THEN d[CHOOSE i \in DOMAIN d : d[i][1] = key][2]
    ELSE NoneVal

\* get_model_config: (config_dict, system_prompt), or (None, None) on any exception
get_model_config(resp) ==
    IF resp.raises
    THEN [isNone |-> TRUE, config_dict |-> << >>, system_prompt |-> NoneVal]
    ELSE [isNone |-> FALSE, config_dict |-> resp.config,
          system_prompt |-> DictGet(resp.config, "system")]

(* ------------------------ the submit handler --------------------------- *)

\* line 68 with a test that never takes the branch
IsErrorChoiceNever(sel) == FALSE

\* line 68: if "Error" in selected_model
IsErrorChoice(sel) == Contains(<< "Error" >>, sel)

\* line 75: f"You submitted model: {selected_model}"
SubmittedText(sel) == << "You submitted model: " >> \o sel

\* line 79: the configuration pane after a failed fetch
ConfigErrorText(sel) == << "Error", " getting config for " >> \o sel

\* line 80 leaving the placeholder in the system prompt pane
PromptErrorTextPlaceholder(sel) == NoSystemPrompt

\* line 80: the system prompt pane after a failed fetch
PromptErrorText(sel) == << "Error", " getting config for " >> \o sel

\* lines 86-89 with  is not None  in the place of the truth test
PromptTextNotNone(extracted) ==
    IF extracted.kind # "none" THEN extracted.v ELSE NoSystemPrompt

\* lines 86-89: the system prompt pane after a successful fetch
PromptText(extracted) == IF Truthy(extracted) THEN extracted.v ELSE NoSystemPrompt

\* the selection a fresh page shows: the first choice, None without choices
FirstChoice == IF choices = << >> THEN NoneVal ELSE StrVal(choices[1])

\* the values a new session starts with (lines 58-60 and the first render)
SessionStart ==
    /\ session_open' = TRUE
    /\ selected_model' = (IF choices' = << >> THEN NoneVal ELSE StrVal(choices'[1]))
    /\ submit_model' = 0
    /\ pc' = "idle"
    /\ handler_model' = NoneVal
    /\ show_response' = NoShow
    /\ model_to_display' = NoModelSubmitted
    /\ model_config' = ConfigPlaceholder
    /\ system_prompt' = NoSystemPrompt
    /\ written' = {}
    /\ rendered' = [model_to_display |-> NoModelSubmitted,
                    system_prompt |-> NoSystemPrompt,
                    model_config |-> ConfigPlaceholder,
                    written |-> {}]
    /\ notifications' = 0
    /\ fetch_calls' = 0
    /\ format_calls' = 0
    /\ in_flight' = 0
    /\ outcome' = "none"

Init ==
    /\ list_response \in ListResponses
    /\ choices = get_available_models(list_response)
    /\ daemon_up = ~list_response.raises
    /\ session_open = TRUE
    /\ selected_model = FirstChoice
    /\ submit_model = 0
    /\ pc = "idle"
    /\ handler_model = NoneVal
    /\ show_response = NoShow
    /\ model_to_display = NoModelSubmitted
    /\ model_config = ConfigPlaceholder
    /\ system_prompt = NoSystemPrompt
    /\ written = {}
    /\ rendered = [model_to_display |-> NoModelSubmitted,
                   system_prompt |-> NoSystemPrompt,
                   model_config |-> ConfigPlaceholder,
                   written |-> {}]
    /\ notifications = 0
    /\ fetch_calls = 0
    /\ format_calls = 0
    /\ in_flight = 0
    /\ outcome = "none"
    /\ session_no = 1

\* the user clicks "Submit Model"
Click ==
    /\ session_open
    /\ submit_model < MaxPending
    /\ submit_model' = submit_model + 1
    /\ UNCHANGED <<list_response, choices, daemon_up, session_open, selected_model,
                   pc, handler_model, show_response, model_to_display, model_config,
                   system_prompt, written, rendered, notifications, fetch_calls,
                   format_calls, in_flight, outcome, session_no>>

\* the user picks another choice; the server takes the message when it is free
Select(i) ==
    /\ session_open
    /\ pc = "idle"
    /\ submit_model = 0
    /\ i \in DOMAIN choices
    /\ selected_model # StrVal(choices[i])
    /\ selected_model' = StrVal(choices[i])
    /\ UNCHANGED <<list_response, choices, daemon_up, session_open, submit_model,
                   pc, handler_model, show_response, model_to_display, model_config,
                   system_prompt, written, rendered, notifications, fetch_calls,
                   format_calls, in_flight, outcome, session_no>>

\* lines 66-76: the handler from its start to the call of ollama.show
HandlerStart ==
    /\ session_open
    /\ pc = "idle"
    /\ submit_model > 0
    /\ submit_model' = submit_model - 1
    /\ handler_model' = selected_model
    /\ show_response' = NoShow
    /\ format_calls' = 0
    /\ IF selected_model.kind = "none"
       THEN \* "Error" in None raises TypeError: the effect fails
            /\ session_open' = FALSE
            /\ pc' = "idle"
            /\ outcome' = "raised"
            /\ written' = {}
            /\ notifications' = 0
            /\ fetch_calls' = 0
            /\ UNCHANGED <<model_to_display, model_config, system_prompt, in_flight>>
       ELSE IF IsErrorChoice(selected_model.v)
       THEN /\ notifications' = 1
            /\ model_to_display' = ConnectError
            /\ model_config' = ConnectError
            /\ system_prompt' = ConnectError
            /\ written' = Fields
            /\ fetch_calls' = 0
            /\ pc' = "flush"
            /\ outcome' = "connect_error"
            /\ UNCHANGED <<session_open, in_flight>>
       ELSE /\ model_to_display' = SubmittedText(selected_model.v)
            /\ written' = {"model_to_display"}
            /\ notifications' = 0
            /\ fetch_calls' = 1
            /\ in_flight' = in_flight + 1
            /\ pc' = "fetching"
            /\ outcome' = "running"
            /\ UNCHANGED <<session_open, model_config, system_prompt>>
    /\ UNCHANGED <<list_response, choices, daemon_up, selected_model, rendered,
                   session_no>>

\* lines 76-89: ollama.show returns or raises, and the handler runs to its end
HandlerFinish(resp) ==
    /\ pc = "fetching"
    /\ daemon_up \/ resp.raises
    /\ show_response' = resp
    /\ in_flight' = in_flight - 1
    /\ LET got == get_model_config(resp)
           sel == handler_model.v
           text == format_model_config(got.config_dict)
       IN  IF got.isNone
           THEN /\ model_config' = ConfigErrorText(sel)
                /\ system_prompt' = PromptErrorText(sel)
                /\ notifications' = notifications + 1
                /\ written' = Fields
                /\ pc' = "flush"
                /\ outcome' = "fetch_error"
                /\ UNCHANGED <<format_calls, session_open>>
           ELSE IF text.raises
           THEN \* TypeError leaves format_model_config and the handler
                /\ format_calls' = format_calls + 1
                /\ session_open' = FALSE
                /\ pc' = "idle"
                /\ outcome' = "raised"
                /\ UNCHANGED <<model_config, system_prompt, notifications, written>>
           ELSE /\ format_calls' = format_calls + 1
                /\ model_config' = text.text
                /\ system_prompt' = PromptText(got.system_prompt)
                /\ written' = Fields
                /\ pc' = "flush"
                /\ outcome' = "shown"
                /\ UNCHANGED <<notifications, session_open>>
    /\ UNCHANGED <<list_response, choices, daemon_up, selected_model, submit_model,
                   handler_model, model_to_display, rendered, fetch_calls,
                   session_no>>

\* lines 91-107 with outputs that may also re-render while ollama.show runs
RenderEarly ==
    /\ session_open
    /\ pc \in {"flush", "fetching"}
    /\ rendered' = [model_to_display |-> model_to_display,
                    system_prompt |-> system_prompt,
                    model_config |-> model_config,
                    written |-> written]
    /\ pc' = (IF pc = "flush" THEN "idle" ELSE pc)
    /\ UNCHANGED <<list_response, choices, daemon_up, session_open, selected_model,
                   submit_model, handler_model, show_response, model_to_display,
                   model_config, system_prompt, written, notifications, fetch_calls,
                   format_calls, in_flight, outcome, session_no>>

\* lines 91-107: the three outputs re-render in the flush that ran the handler
Render ==
    /\ session_open
    /\ pc = "flush"
    /\ rendered' = [model_to_display |-> model_to_display,
                    system_prompt |-> system_prompt,
                    model_config |-> model_config,
                    written |-> written]
    /\ pc' = "idle"
    /\ UNCHANGED <<list_response, choices, daemon_up, session_open, selected_model,
                   submit_model, handler_model, show_response, model_to_display,
                   model_config, system_prompt, written, notifications, fetch_calls,
                   format_calls, in_flight, outcome, session_no>>

\* the daemon goes away or comes back
DaemonToggle ==
    /\ daemon_up' = ~daemon_up
    /\ UNCHANGED <<list_response, choices, session_open, selected_model,
                   submit_model, pc, handler_model, show_response, model_to_display,
                   model_config, system_prompt, written, rendered, notifications,
                   fetch_calls, format_calls, in_flight, outcome, session_no>>

\* lines 56-60 with the choices listed again for every session
NewSessionRelist ==
    /\ pc = "idle"
    /\ session_no < MaxSessions
    /\ session_no' = session_no + 1
    /\ choices' = get_available_models(
                     IF daemon_up
                     THEN [raises |-> FALSE, models |-> << [model |-> <<"llama3:latest">>] >>]
                     ELSE [raises |-> TRUE, models |-> << >>])
    /\ UNCHANGED <<list_response, daemon_up>>
    /\ SessionStart

\* lines 56-60: a browser connects and server() builds a new session;
\* app_ui, built at import time, is reused as it is
NewSession ==
    /\ pc = "idle"
    /\ session_no < MaxSessions
    /\ session_no' = session_no + 1
    /\ UNCHANGED <<list_response, choices, daemon_up>>
    /\ SessionStart

Next ==
    \/ Click
    \/ \E i \in DOMAIN choices : Select(i)
    \/ HandlerStart
    \/ \E resp \in ShowResponses : HandlerFinish(resp)
    \/ Render
    \/ DaemonToggle
    \/ NewSession

Spec == Init /\ [][Next]_vars

TypeOK ==
    /\ pc \in {"idle", "fetching", "flush"}
    /\ submit_model \in 0..MaxPending
    /\ written \subseteq Fields
    /\ in_flight \in 0..1
    /\ session_no \in 1..MaxSessions

(* ------------------------------ claims --------------------------------- *)

\* the handler of the latest submit has ended, normally or by an exception
Completed == outcome \notin {"none", "running"}

\* ollama.list() failed at import time: unreachable, or a malformed response
ListFailed ==
    \/ list_response.raises
    \/ \E i \in DOMAIN list_response.models : "model" \notin DOMAIN list_response.models[i]

\* the three reactive values, in the order label, system prompt, configuration
Display == << model_to_display, system_prompt, model_config >>

\* every value of the record is one json.dumps or datetime_converter can write
Serializable(d) == \A i \in DOMAIN d : d[i][2].kind \in {"str", "none", "datetime"}

\* the value of the record's system key, None when the record has none
SystemOf(d) ==
    IF \E i \in DOMAIN d : d[i][1] = "system"
    THEN d[CHOOSE i \in DOMAIN d : d[i][1] = "system"][2]
    ELSE [kind |-> "none", v |-> << >>]

\* the latest attempt fetched a record that can be formatted
FetchedAndFormatted ==
    /\ Completed
    /\ fetch_calls = 1
    /\ ~show_response.raises
    /\ Serializable(show_response.config)

\* what one submit of sel, answered by resp, leaves in a session just started
FreshSubmit(sel, resp) ==
    IF \E i \in DOMAIN sel : sel[i] = "Error"
    THEN << <<"Error", ": Could not connect to Ollama.">>,
            <<"Error", ": Could not connect to Ollama.">>,
            <<"Error", ": Could not connect to Ollama.">> >>
    ELSE IF resp.raises
    THEN << <<"You submitted model: ">> \o sel,
            <<"Error", " getting config for ">> \o sel,
            <<"Error", " getting config for ">> \o sel >>
    ELSE IF ~Serializable(resp.config)
    THEN << <<"You submitted model: ">> \o sel,
            <<"No system prompt configured">>,
            <<"Model config will be shown here after submission.">> >>
    ELSE << <<"You submitted model: ">> \o sel,
            IF Truthy(SystemOf(resp.config)) THEN SystemOf(resp.config).v
            ELSE <<"No system prompt configured">>,
            format_model_config(resp.config).text >>

\* C1: after every ended submit attempt on a selected identifier, all three
\* reactive values have been written by that attempt (no partial update).
NoPartialUpdate ==
    (Completed /\ handler_model.kind = "str") => written = Fields

\* C2: after the latest ended attempt the three reactive values are what one
\* submit of the same identifier with the same daemon answer leaves in a
\* fresh session (no residue of earlier attempts).
NoResidue ==
    (Completed /\ handler_model.kind = "str")
        => Display = FreshSubmit(handler_model.v, show_response)

\* C3: when ollama.show failed for the submitted identifier, the configuration
\* and the system prompt both hold the error text naming it, the label holds
\* the confirmation naming it, one notification was shown and the formatter
\* was not called.
FetchFailureOutcome ==
    (Completed /\ fetch_calls = 1 /\ show_response.raises)
        => /\ model_config = <<"Error", " getting config for ">> \o handler_model.v
           /\ system_prompt = <<"Error", " getting config for ">> \o handler_model.v
           /\ model_to_display = <<"You submitted model: ">> \o handler_model.v
           /\ notifications = 1
           /\ format_calls = 0

FetchFailureShown ==
    /\ outcome = "fetch_error"
    /\ pc = "idle"
    /\ rendered.model_config = model_config
    /\ handler_model.v = <<"mistral:7b">>

\* C4: when listing failed at start the sentinel is the only choice, and every
\* submit of the sentinel sets the three reactive values to the connection
\* error text, shows one notification and never calls ollama.show.
SentinelSubmitOutcome ==
    /\ ListFailed => choices = << <<"Error", ": Could not connect to Ollama. Is it running?">> >>
    /\ (Completed /\ handler_model.kind = "str"
          /\ handler_model.v = <<"Error", ": Could not connect to Ollama. Is it running?">>)
        => /\ model_to_display = <<"Error", ": Could not connect to Ollama.">>
           /\ model_config = <<"Error", ": Could not connect to Ollama.">>
           /\ system_prompt = <<"Error", ": Could not connect to Ollama.">>
           /\ notifications = 1
           /\ fetch_calls = 0
           /\ in_flight = 0
           /\ show_response.raises

SentinelSubmitted ==
    /\ ListFailed
    /\ outcome = "connect_error"
    /\ pc = "idle"
    /\ rendered.system_prompt = <<"Error", ": Could not connect to Ollama.">>

\* C5 as written: after a fetch that succeeded and a record that formatted,
\* the system prompt is the value of the record's system key whenever the
\* record has that key with a string in it, and the placeholder when it has
\* no such key (or None in it).
PromptIsSystemKey ==
    FetchedAndFormatted
        => LET d == show_response.config
           IN  IF (\E i \in DOMAIN d : d[i][1] = "system") /\ SystemOf(d).kind = "str"
               THEN system_prompt = SystemOf(d).v
               ELSE system_prompt = <<"No system prompt configured">>

\* C5 amended: after a fetch that succeeded and a record that formatted, the
\* system prompt is the value of the record's system key when that value is a
\* non-empty string, and the placeholder when the key is missing, None or "".
PromptIsTruthySystem ==
    FetchedAndFormatted
        => LET o == SystemOf(show_response.config)
           IN  IF o.kind = "str" /\ Len(o.v) > 0
               THEN system_prompt = o.v
               ELSE system_prompt = <<"No system prompt configured">>

EmptySystemPromptShown ==
    /\ FetchedAndFormatted
    /\ SystemOf(show_response.config) = [kind |-> "str", v |-> << >>]
    /\ \E i \in DOMAIN show_response.config : show_response.config[i][1] = "system"
    /\ pc = "idle"

\* C6: after every failed attempt on a selected identifier (sentinel, failed
\* fetch, formatting error) the session is open and takes the next submit.
ReadyAfterFailure ==
    (Completed /\ handler_model.kind = "str" /\ pc = "idle") => session_open

\* C7: at most one ollama.show call is in flight; while it is, no reactive
\* value is written, nothing is rendered and no other submit is started; a
\* rendered page never mixes values of the latest attempt with older ones.
SerializedSubmissions ==
    /\ [](/\ in_flight <= 1
          /\ (pc = "fetching" <=> in_flight = 1)
          /\ rendered.written \in {{}, Fields})
    /\ [][pc = "fetching"
            => /\ handler_model' = handler_model
               /\ rendered' = rendered
               /\ pc' = "fetching" => Display' = Display]_vars

SubmitQueuedBehindFetch ==
    /\ pc = "fetching"
    /\ submit_model > 0
    /\ rendered.written = Fields
    /\ rendered.model_to_display # model_to_display

\* C8: the select control always has a choice, and the selected value is one
\* of the choices.
ChoicesNeverEmpty ==
    /\ Len(choices) >= 1
    /\ selected_model.kind = "str"
    /\ \E i \in DOMAIN choices : choices[i] = selected_model.v

\* C9: a submitted identifier that is not the sentinel always gets the
\* confirmation label and exactly one ollama.show call.
SentinelDetectionExact ==
    (Completed /\ handler_model.kind = "str"
       /\ handler_model.v # <<"Error", ": Could not connect to Ollama. Is it running?">>)
        => /\ model_to_display = <<"You submitted model: ">> \o handler_model.v
           /\ fetch_calls = 1

====
